---- MODULE Spec2Model ----
(***************************************************************************)
(* Model of the trade analysis of pm_analyze_script:                       *)
(*   analyze_trades.py  analyze_trades (sort, position tracker,            *)
(*                      profitability evaluator, PnL, interval detector,   *)
(*                      first-occurrence markers) and print_analysis.      *)
(* Sizes, prices and every derived amount are exact rationals <<n, d>>     *)
(* (d > 0, lowest terms); binary floating-point rounding is not modelled.  *)
(***************************************************************************)
EXTENDS Integers, Sequences, FiniteSets, TLC

(***************************************************************************)
(* Bound of the model: the length of the enumerated trade lists.           *)
(***************************************************************************)
MaxTrades == 3

(***************************************************************************)
(* Exact rational arithmetic.                                              *)
(***************************************************************************)
Abs(n) == IF n < 0 THEN 0 - n ELSE n

RECURSIVE GCD(_, _)
GCD(a, b) == IF b = 0 THEN a ELSE GCD(b, a % b)

Norm(n, d) ==
    LET s == IF d < 0 THEN 0 - 1 ELSE 1
        g == GCD(Abs(n), Abs(d))
    IN  IF n = 0 THEN <<0, 1>> ELSE <<(s * n) \div g, (s * d) \div g>>

Zero == <<0, 1>>
One == <<1, 1>>
RInt(n) == <<n, 1>>
RAdd(a, b) == Norm(a[1] * b[2] + b[1] * a[2], a[2] * b[2])
RSub(a, b) == Norm(a[1] * b[2] - b[1] * a[2], a[2] * b[2])
RMul(a, b) == Norm(a[1] * b[1], a[2] * b[2])
RDiv(a, b) == Norm(a[1] * b[2], a[2] * b[1])
RLess(a, b) == a[1] * b[2] < b[1] * a[2]
RLeq(a, b) == a[1] * b[2] <= b[1] * a[2]
RPos(a) == a[1] > 0
RIsZero(a) == a[1] = 0

(***************************************************************************)
(* Python's None and optional values.                                      *)
(***************************************************************************)
None == <<>>
Some(v) == <<v>>

(***************************************************************************)
(* Trade records (spec section 3, read by analyze_trades lines 60-65).     *)
(***************************************************************************)
Fields == {"timestamp", "side", "outcome", "size", "price"}
Sides == {"BUY", "SELL"}
Outcomes == {"Up", "Down"}
BuyTimes == {1, 2}
SellTimes == {2}
BuyPrices == {<<2, 5>>, <<3, 5>>}
BuySizes == {<<1, 1>>}
SellPrices == {<<1, 2>>}
SellSizes == {<<1, 1>>, <<2, 1>>}

Trade(ts, sd, oc, sz, pr) ==
    [timestamp |-> ts, side |-> sd, outcome |-> oc, size |-> sz, price |-> pr]

TradeUniverse ==
    {Trade(ts, "BUY", oc, sz, pr) :
        ts \in BuyTimes, oc \in Outcomes, sz \in BuySizes, pr \in BuyPrices}
    \cup
    {Trade(ts, "SELL", oc, sz, pr) :
        ts \in SellTimes, oc \in Outcomes, sz \in SellSizes, pr \in SellPrices}

Has(t, f) == f \in DOMAIN t
WellFormed(t) == \A f \in Fields : Has(t, f)
Without(t, f) == [k \in (DOMAIN t) \ {f} |-> t[k]]

SeqsUpTo(S, n) == UNION {[1..k -> S] : k \in 0..n}

(***************************************************************************)
(* trades.sort(key=lambda x: x["timestamp"]): Python's list sort is        *)
(* stable; modelled as an insertion sort that places each record after     *)
(* every already placed record whose timestamp is not larger.              *)
(***************************************************************************)
RECURSIVE InsertBeforeTies(_, _)
InsertBeforeTies(s, t) ==
    IF s = <<>> THEN <<t>>
    ELSE IF s[Len(s)]["timestamp"] < t["timestamp"] THEN Append(s, t)
    ELSE Append(InsertBeforeTies(SubSeq(s, 1, Len(s) - 1), t), s[Len(s)])

RECURSIVE InsertByTimestamp(_, _)
InsertByTimestamp(s, t) ==
    IF s = <<>> THEN <<t>>
    ELSE IF s[Len(s)]["timestamp"] <= t["timestamp"] THEN Append(s, t)
    ELSE Append(InsertByTimestamp(SubSeq(s, 1, Len(s) - 1), t), s[Len(s)])

RECURSIVE StableSort(_)
StableSort(s) ==
    IF s = <<>> THEN <<>>
    ELSE InsertByTimestamp(StableSort(SubSeq(s, 1, Len(s) - 1)), s[Len(s)])

(***************************************************************************)
(* datetime.fromtimestamp(timestamp): the naive local time of a zone at a  *)
(* fixed offset from UTC, in seconds.                                      *)
(***************************************************************************)
UTCOffset == 3600
FromTimestamp(ts) == ts + UTCOffset

(***************************************************************************)
(* Position tracker: the accumulators of one outcome.                      *)
(***************************************************************************)
InitialPositionOneShare ==
    [buys |-> <<>>, sells |-> <<>>,
     shares_bought |-> One, shares_sold |-> Zero,
     cost_basis |-> Zero, proceeds |-> Zero,
     position |-> Zero, avg_price |-> Zero, total_cost |-> Zero]

InitialPosition ==
    [buys |-> <<>>, sells |-> <<>>,
     shares_bought |-> Zero, shares_sold |-> Zero,
     cost_basis |-> Zero, proceeds |-> Zero,
     position |-> Zero, avg_price |-> Zero, total_cost |-> Zero]

ApplyBuy(o, trade, size, value) ==
    LET total_cost == RAdd(o.total_cost, value)
        position == RAdd(o.position, size)
    IN  [o EXCEPT !.buys = Append(@, trade),
                  !.shares_bought = RAdd(@, size),
                  !.cost_basis = RAdd(@, value),
                  !.total_cost = total_cost,
                  !.position = position,
                  !.avg_price = IF RPos(position) THEN RDiv(total_cost, position)
                                ELSE @]

ApplySellFloored(o, trade, size, value) ==
    LET position == IF RLess(o.position, size) THEN Zero ELSE RSub(o.position, size)
        total_cost == IF RPos(position)
                      THEN RSub(o.total_cost, RMul(size, o.avg_price))
                      ELSE Zero
    IN  [o EXCEPT !.sells = Append(@, trade),
                  !.shares_sold = RAdd(@, size),
                  !.proceeds = RAdd(@, value),
                  !.position = position,
                  !.total_cost = total_cost,
                  !.avg_price = IF RPos(position) THEN RDiv(total_cost, position)
                                ELSE Zero]

ApplySellKeepAvg(o, trade, size, value) ==
    LET position == RSub(o.position, size)
        total_cost == IF RPos(position)
                      THEN RSub(o.total_cost, RMul(size, o.avg_price))
                      ELSE Zero
    IN  [o EXCEPT !.sells = Append(@, trade),
                  !.shares_sold = RAdd(@, size),
                  !.proceeds = RAdd(@, value),
                  !.position = position,
                  !.total_cost = total_cost,
                  !.avg_price = IF RPos(position) THEN RDiv(total_cost, position)
                                ELSE @]

ApplySellAtTradePrice(o, trade, size, value) ==
    LET position == RSub(o.position, size)
        total_cost == IF RPos(position)
                      THEN RSub(o.total_cost, value)
                      ELSE Zero
    IN  [o EXCEPT !.sells = Append(@, trade),
                  !.shares_sold = RAdd(@, size),
                  !.proceeds = RAdd(@, value),
                  !.position = position,
                  !.total_cost = total_cost,
                  !.avg_price = IF RPos(position) THEN RDiv(total_cost, position)
                                ELSE Zero]

ApplySell(o, trade, size, value) ==
    LET position == RSub(o.position, size)
        total_cost == IF RPos(position)
                      THEN RSub(o.total_cost, RMul(size, o.avg_price))
                      ELSE Zero
    IN  [o EXCEPT !.sells = Append(@, trade),
                  !.shares_sold = RAdd(@, size),
                  !.proceeds = RAdd(@, value),
                  !.position = position,
                  !.total_cost = total_cost,
                  !.avg_price = IF RPos(position) THEN RDiv(total_cost, position)
                                ELSE Zero]

ApplyTrade(o, trade) ==
    LET size == trade["size"]
        value == RMul(trade["size"], trade["price"])
    IN  IF trade["side"] = "BUY" THEN ApplyBuy(o, trade, size, value)
        ELSE ApplySell(o, trade, size, value)

(***************************************************************************)
(* Profitability evaluator: the timeline entry appended after a trade.     *)
(***************************************************************************)
IsProfitableUpToOne(u, d) ==
    IF RPos(u.position) /\ RPos(d.position)
    THEN IF RLeq(RAdd(u.avg_price, d.avg_price), One) THEN "true" ELSE "false"
    ELSE "null"

IsProfitable(u, d) ==
    IF RPos(u.position) /\ RPos(d.position)
    THEN IF RLess(RAdd(u.avg_price, d.avg_price), One) THEN "true" ELSE "false"
    ELSE "null"

TotalAvgPrice(u, d) ==
    IF RPos(u.position) /\ RPos(d.position) THEN RAdd(u.avg_price, d.avg_price)
    ELSE IF RPos(u.position) \/ RPos(d.position)
    THEN RAdd(IF RPos(u.position) THEN u.avg_price ELSE Zero,
              IF RPos(d.position) THEN d.avg_price ELSE Zero)
    ELSE Zero

TimelineEntry(timestamp, u, d) ==
    [timestamp |-> timestamp,
     datetime |-> FromTimestamp(timestamp),
     up_avg_price |-> u.avg_price,
     down_avg_price |-> d.avg_price,
     total_avg_price |-> TotalAvgPrice(u, d),
     is_profitable |-> IsProfitable(u, d),
     up_position |-> u.position,
     down_position |-> d.position]

(***************************************************************************)
(* PnL calculator (lines 137-151).                                         *)
(***************************************************************************)
FinalPosition(o) == RSub(o.shares_bought, o.shares_sold)

RealizedPnlNetFlow(o) == RSub(o.proceeds, o.cost_basis)

RealizedPnl(o) ==
    RSub(o.proceeds,
         RMul(o.shares_sold,
              IF RPos(o.shares_bought) THEN RDiv(o.cost_basis, o.shares_bought)
              ELSE Zero))

(***************************************************************************)
(* Interval detector (lines 153-191).  Python list indexing: a negative    *)
(* index counts from the end of the list; list.index returns the position  *)
(* of the first element equal to its argument.                             *)
(***************************************************************************)
PyItem(s, k) == IF k < 0 THEN s[Len(s) + k + 1] ELSE s[k + 1]

PyIndex(s, e) == (CHOOSE k \in 1..Len(s) : s[k] = e /\ \A j \in 1..(k - 1) : s[j] # e) - 1

Interval(start, end) == [start |-> start, end |-> end]

InitialScan ==
    [current_state |-> "null", interval_start |-> None,
     profitable_intervals |-> <<>>, unprofitable_intervals |-> <<>>]

CloseInterval(st, end) ==
    IF st.current_state = "true"
    THEN [st EXCEPT !.profitable_intervals =
                        Append(@, Interval(st.interval_start[1], end))]
    ELSE [st EXCEPT !.unprofitable_intervals =
                        Append(@, Interval(st.interval_start[1], end))]

ScanEntryNullBreaks(st, timeline, entry) ==
    IF entry.is_profitable = "null"
    THEN [st EXCEPT !.current_state = "null", !.interval_start = None]
    ELSE IF st.current_state # entry.is_profitable
    THEN LET closed ==
                 IF st.current_state # "null" /\ st.interval_start # None
                 THEN CloseInterval(st,
                          PyItem(timeline, PyIndex(timeline, entry) - 1).datetime)
                 ELSE st
         IN  [closed EXCEPT !.current_state = entry.is_profitable,
                            !.interval_start = Some(entry.datetime)]
    ELSE st

ScanEntryClosesAtLast(st, timeline, entry) ==
    IF entry.is_profitable = "null" THEN st
    ELSE IF st.current_state # entry.is_profitable
    THEN LET closed ==
                 IF st.current_state # "null" /\ st.interval_start # None
                 THEN CloseInterval(st, PyItem(timeline, 0 - 1).datetime)
                 ELSE st
         IN  [closed EXCEPT !.current_state = entry.is_profitable,
                            !.interval_start = Some(entry.datetime)]
    ELSE st

ScanEntryRestarts(st, timeline, entry) ==
    IF entry.is_profitable = "null" THEN st
    ELSE IF st.current_state # entry.is_profitable
    THEN LET closed ==
                 IF st.current_state # "null" /\ st.interval_start # None
                 THEN CloseInterval(st,
                          PyItem(timeline, PyIndex(timeline, entry) - 1).datetime)
                 ELSE st
         IN  [closed EXCEPT !.current_state = entry.is_profitable,
                            !.interval_start = Some(entry.datetime)]
    ELSE [st EXCEPT !.interval_start = Some(entry.datetime)]

ScanEntry(st, timeline, entry) ==
    IF entry.is_profitable = "null" THEN st
    ELSE IF st.current_state # entry.is_profitable
    THEN LET closed ==
                 IF st.current_state # "null" /\ st.interval_start # None
                 THEN CloseInterval(st,
                          PyItem(timeline, PyIndex(timeline, entry) - 1).datetime)
                 ELSE st
         IN  [closed EXCEPT !.current_state = entry.is_profitable,
                            !.interval_start = Some(entry.datetime)]
    ELSE st

RECURSIVE ScanTimeline(_, _, _)
ScanTimeline(st, timeline, k) ==
    IF k > Len(timeline) THEN st
    ELSE ScanTimeline(ScanEntry(st, timeline, timeline[k]), timeline, k + 1)

CloseFinal(st, timeline) ==
    IF st.current_state # "null" /\ st.interval_start # None
    THEN CloseInterval(st, PyItem(timeline, 0 - 1).datetime)
    ELSE st

DetectIntervals(timeline) ==
    CloseFinal(ScanTimeline(InitialScan, timeline, 1), timeline)

(***************************************************************************)
(* First-occurrence markers (lines 193-201).                               *)
(***************************************************************************)
RECURSIVE FirstWithLatest(_, _, _, _)
FirstWithLatest(timeline, flag, k, found) ==
    IF k > Len(timeline) THEN found
    ELSE FirstWithLatest(timeline, flag, k + 1,
                         IF timeline[k].is_profitable = flag
                         THEN Some(timeline[k].datetime) ELSE found)

RECURSIVE FirstWith(_, _, _, _)
FirstWith(timeline, flag, k, found) ==
    IF k > Len(timeline) THEN found
    ELSE FirstWith(timeline, flag, k + 1,
                   IF timeline[k].is_profitable = flag /\ found = None
                   THEN Some(timeline[k].datetime) ELSE found)

(***************************************************************************)
(* Trade cadence (lines 205-207): mean gap in minutes.                     *)
(***************************************************************************)
RECURSIVE SumSeq(_)
SumSeq(s) == IF s = <<>> THEN Zero ELSE RAdd(s[1], SumSeq(Tail(s)))

SecondsPerMinute == 60

TimeDiffs(ts) ==
    [k \in 1..(IF Len(ts) = 0 THEN 0 ELSE Len(ts) - 1) |->
        RDiv(RInt(FromTimestamp(ts[k + 1]["timestamp"])
                  - FromTimestamp(ts[k]["timestamp"])),
             RInt(SecondsPerMinute))]

AvgTimeBetweenTrades(ts) ==
    IF TimeDiffs(ts) # <<>>
    THEN RDiv(SumSeq(TimeDiffs(ts)), RInt(Len(TimeDiffs(ts))))
    ELSE Zero

FieldOf(s, f) == [k \in 1..Len(s) |-> s[k][f]]

(***************************************************************************)
(* Lines 137-251: the dict analyze_trades returns, computed from the       *)
(* tracker's final state.  Its list-valued keys (up_buys, up_sells,        *)
(* down_buys, down_sells, profitability_timeline) are the very lists held  *)
(* in up, down and profitability_timeline, and the price and size lists    *)
(* are FieldOf those; the record keeps the remaining keys.                 *)
(***************************************************************************)
Results(u, d, timeline, ts) ==
    [up_shares_bought |-> u.shares_bought, up_shares_sold |-> u.shares_sold,
     down_shares_bought |-> d.shares_bought, down_shares_sold |-> d.shares_sold,
     up_cost_basis |-> u.cost_basis, up_proceeds |-> u.proceeds,
     down_cost_basis |-> d.cost_basis, down_proceeds |-> d.proceeds,
     up_final_position |-> FinalPosition(u),
     down_final_position |-> FinalPosition(d),
     up_avg_price |-> IF RPos(FinalPosition(u)) THEN u.avg_price ELSE Zero,
     down_avg_price |-> IF RPos(FinalPosition(d)) THEN d.avg_price ELSE Zero,
     profitable_intervals |-> DetectIntervals(timeline).profitable_intervals,
     unprofitable_intervals |-> DetectIntervals(timeline).unprofitable_intervals,
     first_profitable |-> FirstWith(timeline, "true", 1, None),
     first_unprofitable |-> FirstWith(timeline, "false", 1, None),
     up_realized_pnl |-> RealizedPnl(u),
     down_realized_pnl |-> RealizedPnl(d),
     total_realized_pnl |-> RAdd(RealizedPnl(u), RealizedPnl(d)),
     avg_time_between_trades |-> AvgTimeBetweenTrades(ts)]

(***************************************************************************)
(* Accumulation analysis of print_analysis (lines 630-655): the mean size  *)
(* of the first third of the buys against the mean size of the last third, *)
(* computed only above a minimum number of buys.                           *)
(***************************************************************************)
UpAccumulationMin == 50
DownAccumulationMin == 20

CeilDiv(n, d) == (n + d - 1) \div d

AccumulationRaises(buys, minimum) ==
    /\ Len(buys) > minimum
    /\ LET n == Len(buys)
           early == SubSeq(buys, 1, n \div 3)
           late == SubSeq(buys, n - CeilDiv(n, 3) + 1, n)
           early_avg == IF early # <<>>
                        THEN RDiv(SumSeq(FieldOf(early, "size")), RInt(Len(early)))
                        ELSE Zero
           late_avg == IF late # <<>>
                       THEN RDiv(SumSeq(FieldOf(late, "size")), RInt(Len(late)))
                       ELSE Zero
       IN  IF RLess(RMul(early_avg, <<3, 2>>), late_avg) THEN RIsZero(early_avg)
           ELSE IF RLess(RMul(late_avg, <<3, 2>>), early_avg) THEN RIsZero(late_avg)
           ELSE FALSE

(***************************************************************************)
(* print_analysis (lines 254-677) prints only; what the model keeps of it  *)
(* is whether one of its divisions has a zero denominator.  Every other    *)
(* division of the function is guarded by a conditional.                   *)
(***************************************************************************)
TotalShares(r) == RAdd(r.up_final_position, r.down_final_position)
TotalCost(r) == RAdd(r.up_cost_basis, r.down_cost_basis)

PrintRaises(r, up_buys, down_buys) ==
    \/ RIsZero(TotalShares(r))
    \/ RIsZero(TotalCost(r))
    \/ AccumulationRaises(up_buys, UpAccumulationMin)
    \/ AccumulationRaises(down_buys, DownAccumulationMin)

(***************************************************************************)
(* State.                                                                  *)
(***************************************************************************)
VARIABLES
    input_file,              \* the trade list as stored in the JSON input file
    trades,                  \* the list passed to analyze_trades (sorted in place)
    pc,                      \* position in main / analyze_trades
    error,                   \* exception that ended the run, "none" if none
    processed,               \* number of iterations of the trade loop done
    up, down,                \* accumulators of the two outcomes
    profitability_timeline,
    results                  \* the returned dict, None until returned

analysisVars == <<input_file, trades, pc, error, processed, up, down,
                  profitability_timeline, results>>

trackerVars == <<processed, up, down, profitability_timeline>>

(***************************************************************************)
(* State of the one-command tool: analyze_user.py runs fetch_trades.py and *)
(* then analyze_trades.py on the file the fetch step was told to write.    *)
(***************************************************************************)
VARIABLES
    user_pc,                 \* position in analyze_user.main
    fetch_pc,                \* position in fetch_trades.main
    output_path,             \* content of the output file, None if absent
    markets,                 \* sub-markets of the event found by the search
    market_idx,              \* sub-market the loop of main is at
    all_trades,              \* main: trades collected over the sub-markets
    fetched,                 \* main: value of the last fetch_trades call
    pages,                   \* fetch_trades: requests of the current call
    page_trades,             \* fetch_trades: its local all_trades
    offset, page_num,        \* fetch_trades: pagination state
    errors_printed,          \* "Error fetching trades" lines on stderr
    analysed                 \* what the analysis step read, None if not run

fetchVars == <<user_pc, fetch_pc, output_path, markets, market_idx, all_trades,
               fetched, pages, page_trades, offset, page_num, errors_printed,
               analysed>>

vars == <<analysisVars, fetchVars>>

FetchIdle ==
    /\ user_pc = "idle"
    /\ fetch_pc = "idle"
    /\ output_path = None
    /\ markets = <<>>
    /\ market_idx = 0
    /\ all_trades = <<>>
    /\ fetched = <<>>
    /\ pages = <<>>
    /\ page_trades = <<>>
    /\ offset = 0
    /\ page_num = 1
    /\ errors_printed = 0
    /\ analysed = None

(***************************************************************************)
(* Inputs: every list of at most MaxTrades well-formed trades over the     *)
(* value sets above (buys vary in price, sells in size), the scenarios of  *)
(* spec section 8, a few longer lists with partial closes, oversells,      *)
(* gaps in the hedge and a position closed and rebuilt within one          *)
(* timestamp, and lists in which one record lacks one field.               *)
(***************************************************************************)
Ten == RInt(10)

Scenario4 ==
    <<Trade(1, "BUY", "Up", Ten, <<2, 5>>), Trade(2, "SELL", "Up", Ten, <<1, 2>>)>>

Scenarios ==
    { <<Trade(1, "BUY", "Up", Ten, <<2, 5>>)>>,
      <<Trade(1, "BUY", "Up", Ten, <<2, 5>>), Trade(2, "BUY", "Down", Ten, <<1, 2>>)>>,
      <<Trade(1, "BUY", "Up", Ten, <<3, 5>>), Trade(2, "BUY", "Down", Ten, <<3, 5>>)>>,
      Scenario4,
      <<>> }

EdgeCases ==
    { <<Trade(1, "BUY", "Up", RInt(1), <<2, 5>>),
        Trade(1, "BUY", "Down", RInt(1), <<2, 5>>),
        Trade(2, "SELL", "Up", RInt(1), <<1, 2>>),
        Trade(3, "BUY", "Up", RInt(1), <<3, 5>>),
        Trade(4, "BUY", "Down", RInt(1), <<3, 5>>)>>,
      <<Trade(1, "BUY", "Up", RInt(2), <<2, 5>>),
        Trade(2, "BUY", "Up", RInt(1), <<3, 5>>),
        Trade(3, "SELL", "Up", RInt(1), <<1, 2>>),
        Trade(4, "BUY", "Down", RInt(3), <<1, 2>>)>>,
      <<Trade(2, "SELL", "Down", RInt(4), <<1, 2>>),
        Trade(1, "BUY", "Down", RInt(2), <<2, 5>>),
        Trade(3, "BUY", "Down", RInt(1), <<3, 5>>),
        Trade(3, "BUY", "Up", RInt(1), <<0, 1>>)>>,
      <<Trade(1, "BUY", "Up", RInt(1), <<2, 5>>),
        Trade(1, "BUY", "Down", RInt(1), <<2, 5>>),
        Trade(2, "SELL", "Up", RInt(1), <<1, 2>>),
        Trade(3, "BUY", "Up", RInt(1), <<2, 5>>)>>,
      <<Trade(1, "BUY", "Up", RInt(1), <<2, 5>>),
        Trade(2, "BUY", "Down", RInt(1), <<3, 5>>),
        Trade(2, "SELL", "Down", RInt(1), <<1, 2>>),
        Trade(2, "BUY", "Down", RInt(1), <<2, 5>>),
        Trade(2, "SELL", "Down", RInt(1), <<1, 2>>),
        Trade(2, "BUY", "Down", RInt(1), <<3, 5>>)>> }

MalformedBase ==
    { Trade(1, "BUY", "Up", RInt(1), <<2, 5>>),
      Trade(2, "BUY", "Down", RInt(1), <<2, 5>>) }

MalformedInputs ==
    {[s EXCEPT ![k] = Without(s[k], f)] :
        <<s, k, f>> \in {<<s, k, f>> \in
                            SeqsUpTo(MalformedBase, MaxTrades) \X (1..MaxTrades) \X Fields :
                                k <= Len(s)}}

Init ==
    /\ input_file \in SeqsUpTo(TradeUniverse, MaxTrades) \cup Scenarios
                      \cup EdgeCases \cup MalformedInputs
    /\ trades = input_file
    /\ pc = "sort"
    /\ error = "none"
    /\ processed = 0
    /\ up = InitialPosition
    /\ down = InitialPosition
    /\ profitability_timeline = <<>>
    /\ results = None
    /\ FetchIdle

(***************************************************************************)
(* analyze_trades, line 30: sort in place; the key function reads          *)
(* x["timestamp"] of every record and raises KeyError where it is absent.  *)
(***************************************************************************)
SortTrades ==
    /\ pc = "sort"
    /\ IF \A k \in 1..Len(trades) : Has(trades[k], "timestamp")
       THEN /\ trades' = StableSort(trades)
            /\ pc' = "loop"
            /\ error' = error
       ELSE /\ trades' = trades
            /\ pc' = "raised"
            /\ error' = "KeyError"
    /\ UNCHANGED <<input_file, trackerVars, results, fetchVars>>

(***************************************************************************)
(* One iteration of the trade loop, lines 59-135.                          *)
(***************************************************************************)
SkipRecord ==
    /\ processed' = processed + 1
    /\ UNCHANGED <<pc, error, up, down, profitability_timeline>>

MissingField ==
    /\ pc' = "raised"
    /\ error' = "KeyError"
    /\ UNCHANGED trackerVars

TrackTradeEntryFirst(trade) ==
    LET u == IF trade["outcome"] = "Up" THEN ApplyTrade(up, trade) ELSE up
        d == IF trade["outcome"] = "Up" THEN down ELSE ApplyTrade(down, trade)
    IN  /\ up' = u
        /\ down' = d
        /\ profitability_timeline' =
               Append(profitability_timeline,
                      TimelineEntry(trade["timestamp"], up, down))
        /\ processed' = processed + 1
        /\ UNCHANGED <<pc, error>>

TrackTradeUpAlways(trade) ==
    LET u == ApplyTrade(up, trade)
        d == IF trade["outcome"] = "Up" THEN down ELSE ApplyTrade(down, trade)
    IN  /\ up' = u
        /\ down' = d
        /\ profitability_timeline' =
               Append(profitability_timeline, TimelineEntry(trade["timestamp"], u, d))
        /\ processed' = processed + 1
        /\ UNCHANGED <<pc, error>>

TrackTrade(trade) ==
    LET u == IF trade["outcome"] = "Up" THEN ApplyTrade(up, trade) ELSE up
        d == IF trade["outcome"] = "Up" THEN down ELSE ApplyTrade(down, trade)
    IN  /\ up' = u
        /\ down' = d
        /\ profitability_timeline' =
               Append(profitability_timeline, TimelineEntry(trade["timestamp"], u, d))
        /\ processed' = processed + 1
        /\ UNCHANGED <<pc, error>>

ProcessTrade ==
    /\ pc = "loop"
    /\ processed < Len(trades)
    /\ IF WellFormed(trades[processed + 1])
       THEN TrackTrade(trades[processed + 1])
       ELSE MissingField
    /\ UNCHANGED <<input_file, trades, results, fetchVars>>

(***************************************************************************)
(* Lines 137-251, once the loop is over: final positions, realized PnL,    *)
(* intervals, first-occurrence markers, statistics, and the return.        *)
(***************************************************************************)
ReturnResults ==
    /\ pc = "loop"
    /\ processed = Len(trades)
    /\ results' = Some(Results(up, down, profitability_timeline, trades))
    /\ pc' = "returned"
    /\ UNCHANGED <<input_file, trades, error, trackerVars, fetchVars>>

(***************************************************************************)
(* main, line 692: print_analysis(results).                                *)
(***************************************************************************)
PrintAnalysis ==
    /\ pc = "returned"
    /\ IF PrintRaises(results[1], up.buys, down.buys)
       THEN pc' = "raised" /\ error' = "ZeroDivisionError"
       ELSE pc' = "printed" /\ error' = error
    /\ UNCHANGED <<input_file, trades, trackerVars, results, fetchVars>>

Next ==
    \/ SortTrades
    \/ ProcessTrade
    \/ ReturnResults
    \/ PrintAnalysis

Spec == Init /\ [][Next]_vars

(***************************************************************************)
(* fetch_trades.py.  The trades API is the environment: a page request     *)
(* fails or answers with at most page_limit trades.  PageLimit stands for  *)
(* the page_limit of 5000 (line 62) and MaxPages for the safety limit of   *)
(* 1000 pages (line 110), both scaled down; an event has at most           *)
(* MaxMarkets sub-markets, each with a condition id or without one.        *)
(***************************************************************************)
PageLimit == 2
MaxPages == 3
MaxMarkets == 2

MarketLists ==
    UNION {{ms \in [1..n -> [conditionId : {None} \cup {Some(k) : k \in 1..n}]] :
               \A k \in 1..n : ms[k].conditionId \in {None, Some(k)}} :
           n \in 1..MaxMarkets}

PageOf(condition_id, from, n) ==
    [i \in 1..n |-> [market |-> condition_id[1], timestamp |-> from + i]]

StaleFile == <<[market |-> 0, timestamp |-> 1]>>

(***************************************************************************)
(* all_trades.sort(key=lambda x: x.get("timestamp", 0)), line 181.         *)
(***************************************************************************)
TimestampOrZero(t) == IF Has(t, "timestamp") THEN t["timestamp"] ELSE 0

RECURSIVE InsertFetched(_, _)
InsertFetched(s, t) ==
    IF s = <<>> THEN <<t>>
    ELSE IF TimestampOrZero(s[Len(s)]) <= TimestampOrZero(t) THEN Append(s, t)
    ELSE Append(InsertFetched(SubSeq(s, 1, Len(s) - 1), t), s[Len(s)])

RECURSIVE SortFetched(_)
SortFetched(s) ==
    IF s = <<>> THEN <<>>
    ELSE InsertFetched(SortFetched(SubSeq(s, 1, Len(s) - 1)), s[Len(s)])

AnalysisIdle ==
    /\ input_file = <<>>
    /\ trades = <<>>
    /\ pc = "idle"
    /\ error = "none"
    /\ processed = 0
    /\ up = InitialPosition
    /\ down = InitialPosition
    /\ profitability_timeline = <<>>
    /\ results = None

(***************************************************************************)
(* analyze_user.main up to the start of the fetch step (lines 29-70): the  *)
(* output path may hold a file of an earlier run.                          *)
(***************************************************************************)
FetchInit ==
    /\ AnalysisIdle
    /\ user_pc = "fetch"
    /\ fetch_pc = "search"
    /\ output_path \in {None, Some(StaleFile)}
    /\ markets = <<>>
    /\ market_idx = 0
    /\ all_trades = <<>>
    /\ fetched = <<>>
    /\ pages = <<>>
    /\ page_trades = <<>>
    /\ offset = 0
    /\ page_num = 1
    /\ errors_printed = 0
    /\ analysed = None

(***************************************************************************)
(* fetch_trades.main, lines 136-147: search; exit 1 without an event.      *)
(***************************************************************************)
SearchMarkets ==
    /\ fetch_pc = "search"
    /\ \/ /\ fetch_pc' = "exit1"
          /\ UNCHANGED <<markets, market_idx>>
       \/ \E ms \in MarketLists :
            /\ markets' = ms
            /\ market_idx' = 1
            /\ fetch_pc' = "markets"
    /\ UNCHANGED <<analysisVars, user_pc, output_path, all_trades, fetched, pages,
                   page_trades, offset, page_num, errors_printed, analysed>>

(***************************************************************************)
(* Lines 149-164: the next sub-market; one without condition id is         *)
(* skipped, for any other fetch_trades is called (lines 64-66).            *)
(***************************************************************************)
NextMarket ==
    /\ fetch_pc = "markets"
    /\ market_idx <= Len(markets)
    /\ IF markets[market_idx].conditionId = None
       THEN /\ market_idx' = market_idx + 1
            /\ UNCHANGED <<fetch_pc, pages, page_trades, offset, page_num>>
       ELSE /\ pages' = <<>>
            /\ page_trades' = <<>>
            /\ offset' = 0
            /\ page_num' = 1
            /\ fetch_pc' = "page"
            /\ UNCHANGED market_idx
    /\ UNCHANGED <<analysisVars, user_pc, output_path, markets, all_trades, fetched,
                   errors_printed, analysed>>

(***************************************************************************)
(* Return of fetch_trades to main, lines 164-174: a non-empty list goes to *)
(* the verification, an empty one counts as "no trades in this sub-market".*)
(***************************************************************************)
ReturnToMain(value) ==
    /\ fetched' = value
    /\ IF value # <<>>
       THEN fetch_pc' = "verify" /\ market_idx' = market_idx
       ELSE fetch_pc' = "markets" /\ market_idx' = market_idx + 1

(***************************************************************************)
(* fetch_trades, one iteration of its loop (lines 70-112) and, when the    *)
(* loop ends, its return (lines 84, 114-120).                              *)
(***************************************************************************)
ShortPageOrFull(batch) == Len(batch) <= PageLimit

ShortPage(batch) == Len(batch) < PageLimit

FetchPage ==
    /\ fetch_pc = "page"
    /\ \E response \in {None} \cup {Some(n) : n \in 0..PageLimit} :
         IF response = None
         THEN /\ pages' = Append(pages, [offset |-> offset, batch |-> None])
              /\ errors_printed' = errors_printed + 1
              /\ ReturnToMain(<<>>)
              /\ UNCHANGED <<page_trades, offset, page_num>>
         ELSE LET batch == PageOf(markets[market_idx].conditionId, offset,
                                  response[1])
                  collected == page_trades \o batch
              IN  /\ pages' = Append(pages,
                                     [offset |-> offset, batch |-> Some(batch)])
                  /\ page_trades' = collected
                  /\ errors_printed' = errors_printed
                  /\ IF ShortPage(batch)
                     THEN /\ ReturnToMain(collected)
                          /\ UNCHANGED <<offset, page_num>>
                     ELSE /\ offset' = offset + PageLimit
                          /\ page_num' = page_num + 1
                          /\ IF page_num + 1 > MaxPages
                             THEN ReturnToMain(collected)
                             ELSE UNCHANGED <<fetch_pc, market_idx, fetched>>
    /\ UNCHANGED <<analysisVars, user_pc, output_path, markets, all_trades,
                   analysed>>

(***************************************************************************)
(* Lines 166-174: verify_all_trades_fetched only prints; the trades of the *)
(* sub-market are added to main's all_trades.                              *)
(***************************************************************************)
VerifyAndCollect ==
    /\ fetch_pc = "verify"
    /\ all_trades' = all_trades \o fetched
    /\ market_idx' = market_idx + 1
    /\ fetch_pc' = "markets"
    /\ UNCHANGED <<analysisVars, user_pc, output_path, markets, fetched, pages,
                   page_trades, offset, page_num, errors_printed, analysed>>

(***************************************************************************)
(* Lines 176-190, after the last sub-market: exit 0 without a file when no *)
(* trade was collected; else sort, write the file and exit 0, or exit 1    *)
(* when the file cannot be opened.                                         *)
(***************************************************************************)
SaveTrades ==
    /\ fetch_pc = "markets"
    /\ market_idx > Len(markets)
    /\ IF all_trades = <<>>
       THEN fetch_pc' = "exit0" /\ UNCHANGED <<all_trades, output_path>>
       ELSE /\ all_trades' = SortFetched(all_trades)
            /\ \E written \in BOOLEAN :
                 IF written
                 THEN /\ output_path' = Some(SortFetched(all_trades))
                      /\ fetch_pc' = "exit0"
                 ELSE /\ output_path' = output_path
                      /\ fetch_pc' = "exit1"
    /\ UNCHANGED <<analysisVars, user_pc, markets, market_idx, fetched, pages,
                   page_trades, offset, page_num, errors_printed, analysed>>

(***************************************************************************)
(* analyze_user.main, lines 72-87: a failed fetch step ends the run with   *)
(* exit 1; after a successful one the analysis is skipped if the output    *)
(* path does not exist.                                                    *)
(***************************************************************************)
AfterFetch ==
    /\ user_pc = "fetch"
    /\ fetch_pc \in {"exit0", "exit1"}
    /\ user_pc' = IF fetch_pc = "exit1" THEN "exit1"
                  ELSE IF output_path = None THEN "skipped"
                  ELSE "analyze"
    /\ UNCHANGED <<analysisVars, fetch_pc, output_path, markets, market_idx,
                   all_trades, fetched, pages, page_trades, offset, page_num,
                   errors_printed, analysed>>

(***************************************************************************)
(* Lines 95-107: analyze_trades.py runs on the output file; its exit       *)
(* status decides between completion and exit 1.                           *)
(***************************************************************************)
AnalyzeFile ==
    /\ user_pc = "analyze"
    /\ analysed' = output_path
    /\ \E ok \in BOOLEAN : user_pc' = IF ok THEN "done" ELSE "exit1"
    /\ UNCHANGED <<analysisVars, fetch_pc, output_path, markets, market_idx,
                   all_trades, fetched, pages, page_trades, offset, page_num,
                   errors_printed>>

FetchNext ==
    \/ SearchMarkets
    \/ NextMarket
    \/ FetchPage
    \/ VerifyAndCollect
    \/ SaveTrades
    \/ AfterFetch
    \/ AnalyzeFile

FetchSpec == FetchInit /\ [][FetchNext]_vars

(***************************************************************************)
(* Quantities recomputed from the sorted trade list, for the properties.   *)
(***************************************************************************)
RECURSIVE SharesOf(_, _, _, _)
SharesOf(ts, k, outcome, side) ==
    IF k = 0 THEN Zero
    ELSE RAdd(SharesOf(ts, k - 1, outcome, side),
              IF ts[k]["outcome"] = outcome /\ ts[k]["side"] = side
              THEN ts[k]["size"] ELSE Zero)

RECURSIVE ValueOf(_, _, _, _)
ValueOf(ts, k, outcome, side) ==
    IF k = 0 THEN Zero
    ELSE RAdd(ValueOf(ts, k - 1, outcome, side),
              IF ts[k]["outcome"] = outcome /\ ts[k]["side"] = side
              THEN RMul(ts[k]["size"], ts[k]["price"]) ELSE Zero)

NetShares(ts, k, outcome) ==
    RSub(SharesOf(ts, k, outcome, "BUY"), SharesOf(ts, k, outcome, "SELL"))

AllWellFormed(ts) == \A k \in 1..Len(ts) : WellFormed(ts[k])

LastEntry == profitability_timeline[Len(profitability_timeline)]

(***************************************************************************)
(* C1: after every processed trade, for each outcome, the running position *)
(* (in the tracker and in the timeline entry of that trade) equals the     *)
(* shares bought minus the shares sold of that outcome so far, and the     *)
(* reported final position equals the position of the last timeline entry. *)
(***************************************************************************)
C1_PositionIsBoughtMinusSold ==
    /\ Len(profitability_timeline) = processed
    /\ up.position = RSub(up.shares_bought, up.shares_sold)
    /\ down.position = RSub(down.shares_bought, down.shares_sold)
    /\ up.shares_bought = SharesOf(trades, processed, "Up", "BUY")
    /\ up.shares_sold = SharesOf(trades, processed, "Up", "SELL")
    /\ down.shares_bought = SharesOf(trades, processed, "Down", "BUY")
    /\ down.shares_sold = SharesOf(trades, processed, "Down", "SELL")
    /\ \A k \in 1..Len(profitability_timeline) :
          /\ profitability_timeline[k].up_position = NetShares(trades, k, "Up")
          /\ profitability_timeline[k].down_position = NetShares(trades, k, "Down")
    /\ (results # None /\ profitability_timeline # <<>>) =>
          /\ results[1].up_final_position = LastEntry.up_position
          /\ results[1].down_final_position = LastEntry.down_position

C1_Witness ==
    /\ results # None
    /\ Len(profitability_timeline) >= 3
    /\ RLess(results[1].up_final_position, Zero)
    /\ RPos(up.shares_bought)

(***************************************************************************)
(* C2: after every processed trade, an outcome whose position is <= 0 has  *)
(* avg_price 0 (in the tracker and in every timeline entry), also after a  *)
(* sell that exceeds the long position and after a buy made while the      *)
(* position is negative; analyze_trades raises no error on a list of       *)
(* well-formed trades, oversold or not.                                    *)
(***************************************************************************)
C2_NoAvgPriceWithoutPosition ==
    /\ ~RPos(up.position) => up.avg_price = Zero
    /\ ~RPos(down.position) => down.avg_price = Zero
    /\ \A k \in 1..Len(profitability_timeline) :
          /\ ~RPos(profitability_timeline[k].up_position)
                => profitability_timeline[k].up_avg_price = Zero
          /\ ~RPos(profitability_timeline[k].down_position)
                => profitability_timeline[k].down_avg_price = Zero
    /\ (AllWellFormed(input_file) /\ results = None) => error = "none"

C2_Witness ==
    /\ processed >= 3
    /\ trades[processed]["side"] = "BUY"
    /\ trades[processed]["outcome"] = "Down"
    /\ trades[processed - 1]["side"] = "SELL"
    /\ trades[processed - 1]["outcome"] = "Down"
    /\ RPos(profitability_timeline[processed - 2].down_position)
    /\ RLess(profitability_timeline[processed - 1].down_position, Zero)
    /\ ~RPos(down.position)
    /\ error = "none"

(***************************************************************************)
(* C3: in every timeline entry, is_profitable is null unless both          *)
(* positions are positive; with both positive total_avg_price is the sum   *)
(* of the two average prices and is_profitable tells whether it is below   *)
(* 1; with exactly one positive position total_avg_price is that side's    *)
(* average price; with none it is 0.                                       *)
(***************************************************************************)
EntryAsSpecified(e) ==
    LET upPos == RPos(e.up_position)
        downPos == RPos(e.down_position)
    IN  /\ (e.is_profitable # "null") => (upPos /\ downPos)
        /\ (upPos /\ downPos) =>
              /\ e.total_avg_price = RAdd(e.up_avg_price, e.down_avg_price)
              /\ e.is_profitable =
                    IF e.total_avg_price[1] < e.total_avg_price[2]
                    THEN "true" ELSE "false"
        /\ (upPos /\ ~downPos) =>
              e.total_avg_price = e.up_avg_price /\ e.is_profitable = "null"
        /\ (~upPos /\ downPos) =>
              e.total_avg_price = e.down_avg_price /\ e.is_profitable = "null"
        /\ (~upPos /\ ~downPos) =>
              e.total_avg_price = Zero /\ e.is_profitable = "null"

C3_TimelineEntries ==
    \A k \in 1..Len(profitability_timeline) :
        EntryAsSpecified(profitability_timeline[k])

C3_Witness ==
    /\ results # None
    /\ \E k \in 1..Len(profitability_timeline) :
          /\ profitability_timeline[k].is_profitable = "false"
          /\ profitability_timeline[k].total_avg_price = One
    /\ \E k \in 1..Len(profitability_timeline) :
          profitability_timeline[k].is_profitable = "true"
    /\ \E k \in 1..Len(profitability_timeline) :
          /\ profitability_timeline[k].is_profitable = "null"
          /\ RPos(profitability_timeline[k].total_avg_price)

(***************************************************************************)
(* Maximal runs of equal value among the non-null timeline entries.        *)
(***************************************************************************)
Min(S) == CHOOSE m \in S : \A x \in S : m <= x
IndexSeq(n) == [k \in 1..n |-> k]

LaterNonNull(tl, k) == {j \in (k + 1)..Len(tl) : tl[j].is_profitable # "null"}

IsRunEnd(tl, k) ==
    /\ tl[k].is_profitable # "null"
    /\ \/ LaterNonNull(tl, k) = {}
       \/ tl[Min(LaterNonNull(tl, k))].is_profitable # tl[k].is_profitable

RunEnds(tl, flag) ==
    SelectSeq(IndexSeq(Len(tl)),
              LAMBDA k : tl[k].is_profitable = flag /\ IsRunEnd(tl, k))

EndsAtRunEnds(intervals, tl, flag) ==
    \A j \in 1..Len(intervals) :
        /\ j <= Len(RunEnds(tl, flag))
        /\ intervals[j].end = tl[RunEnds(tl, flag)[j]].datetime

(***************************************************************************)
(* C4: every interval emitted by the interval detector ends at the time of *)
(* the last non-null timeline entry of its run, also when null entries lie *)
(* between two runs or after the final run.                                *)
(***************************************************************************)
C4_IntervalEndsAtLastNonNull ==
    results # None =>
        /\ EndsAtRunEnds(results[1].profitable_intervals,
                         profitability_timeline, "true")
        /\ EndsAtRunEnds(results[1].unprofitable_intervals,
                         profitability_timeline, "false")

(***************************************************************************)
(* C5: for each outcome the returned realized PnL is proceeds minus        *)
(* shares_sold times (cost_basis / shares_bought) over the whole list,     *)
(* the average-cost term being 0 when nothing was bought; the total is the *)
(* sum of both outcomes; BUY Up 10 at 0.40 then SELL Up 10 at 0.50 gives   *)
(* position 0, average price 0 and realized PnL 1.                         *)
(***************************************************************************)
PnlAsSpecified(pnl, ts, outcome) ==
    LET n == Len(ts)
        bought == SharesOf(ts, n, outcome, "BUY")
        sold == SharesOf(ts, n, outcome, "SELL")
        cost == ValueOf(ts, n, outcome, "BUY")
        proceeds == ValueOf(ts, n, outcome, "SELL")
    IN  IF RIsZero(bought) THEN pnl = proceeds
        ELSE RMul(pnl, bought) = RSub(RMul(proceeds, bought), RMul(sold, cost))

C5_RealizedPnl ==
    results # None =>
        /\ PnlAsSpecified(results[1].up_realized_pnl, trades, "Up")
        /\ PnlAsSpecified(results[1].down_realized_pnl, trades, "Down")
        /\ results[1].total_realized_pnl =
              RAdd(results[1].up_realized_pnl, results[1].down_realized_pnl)
        /\ input_file = Scenario4 =>
              /\ results[1].up_final_position = Zero
              /\ results[1].up_avg_price = Zero
              /\ results[1].up_realized_pnl = One

C5_Witness ==
    /\ results # None
    /\ input_file = Scenario4
    /\ results[1].total_realized_pnl = One

(***************************************************************************)
(* C6: print_analysis never divides by zero, whatever result               *)
(* analyze_trades produced.                                                *)
(***************************************************************************)
C6_NoDivisionByZero == error # "ZeroDivisionError"

(***************************************************************************)
(* C7: on an empty trade list analyze_trades raises nothing and returns a  *)
(* result whose share counts, cost and proceeds, positions, average        *)
(* prices and realized PnL are 0, whose timeline and interval lists are    *)
(* empty and whose first_profitable and first_unprofitable are null.       *)
(***************************************************************************)
C7_EmptyTradeList ==
    input_file = <<>> =>
        /\ results = None => error = "none"
        /\ results # None =>
              LET r == results[1]
              IN  /\ r.up_shares_bought = Zero /\ r.up_shares_sold = Zero
                  /\ r.down_shares_bought = Zero /\ r.down_shares_sold = Zero
                  /\ r.up_cost_basis = Zero /\ r.up_proceeds = Zero
                  /\ r.down_cost_basis = Zero /\ r.down_proceeds = Zero
                  /\ r.up_final_position = Zero /\ r.down_final_position = Zero
                  /\ r.up_avg_price = Zero /\ r.down_avg_price = Zero
                  /\ r.up_realized_pnl = Zero /\ r.down_realized_pnl = Zero
                  /\ r.total_realized_pnl = Zero
                  /\ up.buys = <<>> /\ up.sells = <<>>
                  /\ down.buys = <<>> /\ down.sells = <<>>
                  /\ profitability_timeline = <<>>
                  /\ r.profitable_intervals = <<>>
                  /\ r.unprofitable_intervals = <<>>
                  /\ r.first_profitable = None
                  /\ r.first_unprofitable = None

C7_Witness == input_file = <<>> /\ results # None

(***************************************************************************)
(* C8: the trades are processed in non-decreasing timestamp order, trades  *)
(* of equal timestamp in their input order (the sort is stable, and        *)
(* sorting again changes nothing); every reordering of the input that      *)
(* keeps the relative order of equal-timestamp trades sorts to the same    *)
(* list, which is all that the analysis reads.                             *)
(***************************************************************************)
SortDone ==
    /\ pc # "sort"
    /\ \A k \in 1..Len(input_file) : Has(input_file[k], "timestamp")

Reordered(ts, g) == [k \in 1..Len(ts) |-> ts[g[k]]]

KeepsTies(ts, g) ==
    \A j, k \in 1..Len(ts) :
        (j < k /\ ts[g[j]]["timestamp"] = ts[g[k]]["timestamp"]) => g[j] < g[k]

JustSorted == SortDone /\ pc = "loop" /\ processed = 0

C8_StableSortedProcessing ==
    /\ JustSorted =>
          /\ \E g \in Permutations(1..Len(input_file)) :
                /\ trades = Reordered(input_file, g)
                /\ KeepsTies(input_file, g)
          /\ \A g \in Permutations(1..Len(input_file)) :
                KeepsTies(input_file, g) =>
                    StableSort(Reordered(input_file, g)) = trades
    /\ SortDone =>
          /\ trades = StableSort(input_file)
          /\ StableSort(trades) = trades
          /\ \A j, k \in 1..Len(trades) :
                j < k => trades[j]["timestamp"] <= trades[k]["timestamp"]
          /\ \A k \in 1..Len(profitability_timeline) :
                profitability_timeline[k].timestamp = trades[k]["timestamp"]

C8_Witness ==
    /\ results # None
    /\ trades # input_file
    /\ \E j, k \in 1..Len(trades) :
          /\ j < k
          /\ trades[j]["timestamp"] = trades[k]["timestamp"]
          /\ trades[j] # trades[k]

(***************************************************************************)
(* C9: when a record of the input lacks timestamp, side, outcome, size or  *)
(* price, wherever it stands in the list, analyze_trades ends in KeyError  *)
(* and returns nothing: the run never gets past the trade loop.            *)
(***************************************************************************)
C9_MalformedRecordAborts ==
    ~AllWellFormed(input_file) =>
        /\ results = None
        /\ pc \in {"sort", "loop", "raised"}
        /\ pc = "loop" => AllWellFormed(SubSeq(trades, 1, processed))
        /\ pc = "raised" => error = "KeyError"
        /\ pc = "loop" => processed < Len(trades)

C9_Witness ==
    /\ pc = "raised"
    /\ error = "KeyError"
    /\ results = None
    /\ processed >= 1
    /\ processed + 1 < Len(trades)
    /\ ~WellFormed(trades[processed + 1])
    /\ RPos(up.position)

(***************************************************************************)
(* C10: first_profitable is the time of the first timeline entry whose     *)
(* is_profitable is true, first_unprofitable that of the first entry whose *)
(* is_profitable is false; each is null exactly when there is no such      *)
(* entry.                                                                  *)
(***************************************************************************)
EntriesWith(flag) ==
    {k \in 1..Len(profitability_timeline) :
        profitability_timeline[k].is_profitable = flag}

FirstTimeWith(flag) ==
    IF EntriesWith(flag) = {} THEN None
    ELSE Some(FromTimestamp(profitability_timeline[Min(EntriesWith(flag))].timestamp))

C10_FirstOccurrenceMarkers ==
    results # None =>
        /\ results[1].first_profitable = FirstTimeWith("true")
        /\ results[1].first_unprofitable = FirstTimeWith("false")

C10_Witness ==
    /\ results # None
    /\ results[1].first_profitable # None
    /\ results[1].first_unprofitable # None
    /\ results[1].first_unprofitable # results[1].first_profitable
    /\ Cardinality(EntriesWith("false")) >= 2

(***************************************************************************)
(* C12: for each outcome, after every processed trade, total_cost equals   *)
(* avg_price times position; in particular total_cost is 0 whenever the    *)
(* position is not positive, also after a BUY that only partly covers an   *)
(* oversold position.                                                      *)
(***************************************************************************)
CostIsAvgTimesPosition(o) ==
    /\ o.total_cost = RMul(o.avg_price, o.position)
    /\ ~RPos(o.position) => RIsZero(o.total_cost)

C12_TotalCostIsAvgTimesPosition ==
    /\ CostIsAvgTimesPosition(up)
    /\ CostIsAvgTimesPosition(down)

(***************************************************************************)
(* C13: the intervals of each polarity correspond one-to-one, in order, to *)
(* the maximal runs of that value among the non-null timeline entries:     *)
(* as many intervals as runs, the j-th interval starting at the time of    *)
(* the first entry of the j-th run; a null entry between two non-null      *)
(* entries of equal value does not split their run.                        *)
(***************************************************************************)
Max(S) == CHOOSE m \in S : \A x \in S : m >= x

EarlierNonNull(tl, k) == {j \in 1..(k - 1) : tl[j].is_profitable # "null"}

IsRunStart(tl, k) ==
    /\ tl[k].is_profitable # "null"
    /\ \/ EarlierNonNull(tl, k) = {}
       \/ tl[Max(EarlierNonNull(tl, k))].is_profitable # tl[k].is_profitable

RunStarts(tl, flag) ==
    SelectSeq(IndexSeq(Len(tl)),
              LAMBDA k : tl[k].is_profitable = flag /\ IsRunStart(tl, k))

StartsAtRunStarts(intervals, tl, flag) ==
    /\ Len(intervals) = Len(RunStarts(tl, flag))
    /\ \A j \in 1..Len(intervals) :
          intervals[j].start = FromTimestamp(tl[RunStarts(tl, flag)[j]].timestamp)

C13_OneIntervalPerRun ==
    results # None =>
        /\ StartsAtRunStarts(results[1].profitable_intervals,
                             profitability_timeline, "true")
        /\ StartsAtRunStarts(results[1].unprofitable_intervals,
                             profitability_timeline, "false")

C13_Witness ==
    /\ results # None
    /\ \E i, k \in 1..Len(profitability_timeline) :
          /\ i + 1 < k
          /\ profitability_timeline[i].is_profitable # "null"
          /\ profitability_timeline[i].is_profitable =
                 profitability_timeline[k].is_profitable
          /\ \A j \in (i + 1)..(k - 1) :
                 profitability_timeline[j].is_profitable = "null"
    /\ Len(results[1].profitable_intervals)
           + Len(results[1].unprofitable_intervals) >= 1

(***************************************************************************)
(* C14: within each interval list the intervals are ordered by start time  *)
(* and each ends before the next one starts, and no profitable interval    *)
(* overlaps an unprofitable one, whatever the timestamps of the trades.    *)
(***************************************************************************)
OrderedAndDisjoint(intervals) ==
    \A j \in 1..(Len(intervals) - 1) :
        /\ intervals[j].start <= intervals[j + 1].start
        /\ intervals[j].end < intervals[j + 1].start

Overlap(a, b) == a.start <= b.end /\ b.start <= a.end

C14_IntervalsOrderedAndDisjoint ==
    results # None =>
        /\ OrderedAndDisjoint(results[1].profitable_intervals)
        /\ OrderedAndDisjoint(results[1].unprofitable_intervals)
        /\ \A j \in 1..Len(results[1].profitable_intervals) :
             \A k \in 1..Len(results[1].unprofitable_intervals) :
                ~Overlap(results[1].profitable_intervals[j],
                         results[1].unprofitable_intervals[k])

(***************************************************************************)
(* C14, amended: within each interval list the intervals are ordered by    *)
(* start time and each ends no later than the next one starts, and of a    *)
(* profitable and an unprofitable interval one ends no later than the      *)
(* other starts: intervals share at most an instant, which they do when    *)
(* the state changes between trades of one timestamp.                      *)
(***************************************************************************)
OrderedAndTouching(intervals) ==
    \A j \in 1..(Len(intervals) - 1) :
        /\ intervals[j].start <= intervals[j + 1].start
        /\ intervals[j].end <= intervals[j + 1].start

C14_IntervalsShareAtMostAnInstant ==
    results # None =>
        /\ OrderedAndTouching(results[1].profitable_intervals)
        /\ OrderedAndTouching(results[1].unprofitable_intervals)
        /\ \A j \in 1..Len(results[1].profitable_intervals) :
             \A k \in 1..Len(results[1].unprofitable_intervals) :
                \/ results[1].profitable_intervals[j].end
                       <= results[1].unprofitable_intervals[k].start
                \/ results[1].unprofitable_intervals[k].end
                       <= results[1].profitable_intervals[j].start

C14_Witness ==
    /\ results # None
    /\ Len(results[1].unprofitable_intervals) >= 2
    /\ Len(results[1].profitable_intervals) >= 1
    /\ results[1].unprofitable_intervals[1].end
           = results[1].profitable_intervals[1].start

(***************************************************************************)
(* C15: when exactly one timeline entry has a non-null is_profitable, the  *)
(* detector emits exactly one interval, of that entry's polarity, whose    *)
(* start and end both are that entry's time, also when null entries with   *)
(* later timestamps follow it.                                             *)
(***************************************************************************)
NonNullEntries == {k \in 1..Len(profitability_timeline) :
                      profitability_timeline[k].is_profitable # "null"}

OnlyInterval(same, other, e) ==
    /\ other = <<>>
    /\ same = <<Interval(FromTimestamp(e.timestamp), FromTimestamp(e.timestamp))>>

C15_SingleEntryZeroDuration ==
    (results # None /\ Cardinality(NonNullEntries) = 1) =>
        LET e == profitability_timeline[CHOOSE k \in NonNullEntries : TRUE]
        IN  IF e.is_profitable = "true"
            THEN OnlyInterval(results[1].profitable_intervals,
                              results[1].unprofitable_intervals, e)
            ELSE OnlyInterval(results[1].unprofitable_intervals,
                              results[1].profitable_intervals, e)

(***************************************************************************)
(* C16: the timeline has one entry per trade: every step either leaves the *)
(* timeline alone or appends one entry, which carries the timestamp of the *)
(* trade just processed (the i-th of the sorted list for the i-th entry)   *)
(* and the average prices and positions as they stand right after that     *)
(* trade; the accumulators change only in such a step; earlier entries are *)
(* never changed; entry timestamps are non-decreasing and the returned     *)
(* timeline is as long as the input.                                       *)
(***************************************************************************)
AppendsEntryOfTrade ==
    LET n == Len(profitability_timeline')
        e == profitability_timeline'[n]
    IN  /\ n = Len(profitability_timeline) + 1
        /\ n = processed'
        /\ e.timestamp = trades[n]["timestamp"]
        /\ e.up_avg_price = up'.avg_price
        /\ e.down_avg_price = down'.avg_price
        /\ e.up_position = up'.position
        /\ e.down_position = down'.position

TimelineStep ==
    /\ SubSeq(profitability_timeline', 1, Len(profitability_timeline))
           = profitability_timeline
    /\ \/ /\ profitability_timeline' = profitability_timeline
          /\ up' = up /\ down' = down /\ processed' = processed
       \/ AppendsEntryOfTrade

TimelineOrdered ==
    /\ \A j, k \in 1..Len(profitability_timeline) :
          j < k => profitability_timeline[j].timestamp
                       <= profitability_timeline[k].timestamp
    /\ results # None =>
          Len(profitability_timeline) = Len(input_file)

C16_OneEntryPerTrade == []TimelineOrdered /\ [][TimelineStep]_vars

C16_Witness ==
    /\ results # None
    /\ Len(profitability_timeline) >= 3
    /\ profitability_timeline[1].timestamp < profitability_timeline[3].timestamp
    /\ profitability_timeline[1].up_position # profitability_timeline[3].up_position
    /\ input_file # trades

(***************************************************************************)
(* C17: processing a trade of one outcome changes only that outcome's      *)
(* accumulators; a BUY leaves shares_sold and proceeds of its own outcome  *)
(* unchanged and a SELL leaves shares_bought and cost_basis unchanged; a   *)
(* step that processes no trade changes no accumulator.                    *)
(***************************************************************************)
Accumulators(o) ==
    <<o.shares_bought, o.shares_sold, o.cost_basis, o.proceeds,
      o.position, o.avg_price, o.total_cost>>

OwnFrame(side, before, after) ==
    IF side = "BUY"
    THEN /\ after.shares_sold = before.shares_sold
         /\ after.proceeds = before.proceeds
         /\ after.sells = before.sells
    ELSE /\ after.shares_bought = before.shares_bought
         /\ after.cost_basis = before.cost_basis
         /\ after.buys = before.buys

FrameStep ==
    IF processed' = processed + 1
    THEN LET trade == trades[processed']
         IN  IF trade["outcome"] = "Up"
             THEN /\ Accumulators(down') = Accumulators(down)
                  /\ down' = down
                  /\ OwnFrame(trade["side"], up, up')
             ELSE /\ Accumulators(up') = Accumulators(up)
                  /\ up' = up
                  /\ OwnFrame(trade["side"], down, down')
    ELSE up' = up /\ down' = down

C17_OnlyOwnOutcomeChanges == [][FrameStep]_vars

C17_Witness ==
    /\ processed >= 3
    /\ RPos(up.shares_bought) /\ RPos(up.shares_sold)
    /\ RPos(down.shares_bought)
    /\ down.shares_sold = Zero

(***************************************************************************)
(* C19: every interval of profitable_intervals and unprofitable_intervals  *)
(* has start <= end, also when several trades share a timestamp and a      *)
(* later timeline entry equals an earlier one field for field.             *)
(***************************************************************************)
StartsBeforeEnd(intervals) ==
    \A j \in 1..Len(intervals) : intervals[j].start <= intervals[j].end

C19_IntervalStartNotAfterEnd ==
    results # None =>
        /\ StartsBeforeEnd(results[1].profitable_intervals)
        /\ StartsBeforeEnd(results[1].unprofitable_intervals)

(***************************************************************************)
(* C20: after every processed trade each outcome's avg_price is 0 or lies  *)
(* between the least and the greatest price of that outcome's BUY trades   *)
(* so far, hence never exceeds 1 for prices in [0, 1], also after an       *)
(* oversold position is bought back to positive.                           *)
(***************************************************************************)
AvgWithinBuyPrices(o) ==
    \/ RIsZero(o.avg_price)
    \/ /\ o.buys # <<>>
       /\ \E k \in 1..Len(o.buys) : RLeq(o.buys[k]["price"], o.avg_price)
       /\ \E k \in 1..Len(o.buys) : RLeq(o.avg_price, o.buys[k]["price"])
       /\ RLeq(o.avg_price, One)

C20_AvgPriceWithinBuyPrices ==
    /\ AvgWithinBuyPrices(up)
    /\ AvgWithinBuyPrices(down)

(***************************************************************************)
(* C11: a failed trade fetch is never followed by an analysis: once a page *)
(* request for a sub-market of the event has failed, the fetch step writes *)
(* no trade list for the analysis and analyze_user runs no analysis.       *)
(***************************************************************************)
C11_NoAnalysisAfterFailedFetch ==
    errors_printed > 0 =>
        /\ user_pc \notin {"analyze", "done"}
        /\ analysed = None
        /\ fetch_pc = "exit0" => output_path \in {None, Some(StaleFile)}

(***************************************************************************)
(* The pages of one fetch_trades call.                                     *)
(***************************************************************************)
NoRequestFailed == \A k \in 1..Len(pages) : pages[k].batch # None

IsFull(page) == page.batch # None /\ Len(page.batch[1]) = PageLimit
IsShort(page) == page.batch # None /\ Len(page.batch[1]) < PageLimit

RECURSIVE Concatenation(_)
Concatenation(ps) ==
    IF ps = <<>> THEN <<>>
    ELSE Concatenation(SubSeq(ps, 1, Len(ps) - 1)) \o ps[Len(ps)].batch[1]

CallReturned == fetch_pc # "page" /\ pages # <<>>

OffsetsInSteps ==
    \A k \in 1..Len(pages) : pages[k].offset = (k - 1) * PageLimit

(***************************************************************************)
(* C18: fetch_trades requests pages at offsets 0, L, 2L, ... and, when no  *)
(* request fails, stops exactly after the first page with fewer than L     *)
(* trades and returns the concatenation of the pages received, in request  *)
(* order; it never stops while every page so far was full.                 *)
(***************************************************************************)
C18_StopsAtFirstShortPage ==
    /\ OffsetsInSteps
    /\ fetch_pc = "page" => \A k \in 1..Len(pages) : IsFull(pages[k])
    /\ (CallReturned /\ NoRequestFailed) =>
          /\ IsShort(pages[Len(pages)])
          /\ \A k \in 1..(Len(pages) - 1) : IsFull(pages[k])
          /\ fetched = Concatenation(pages)

(***************************************************************************)
(* C18, amended: as above, except that the call also stops, without a      *)
(* short page, once it has received as many full pages as the safety limit *)
(* allows; with fewer full pages it never stops.                           *)
(***************************************************************************)
C18_StopsAtShortPageOrLimit ==
    /\ OffsetsInSteps
    /\ Len(pages) <= MaxPages
    /\ fetch_pc = "page" =>
          /\ Len(pages) < MaxPages
          /\ \A k \in 1..Len(pages) : IsFull(pages[k])
    /\ (CallReturned /\ NoRequestFailed) =>
          /\ \A k \in 1..(Len(pages) - 1) : IsFull(pages[k])
          /\ \/ IsShort(pages[Len(pages)])
             \/ IsFull(pages[Len(pages)]) /\ Len(pages) = MaxPages
          /\ fetched = Concatenation(pages)

C18_Witness ==
    /\ CallReturned
    /\ NoRequestFailed
    /\ Len(pages) >= 2
    /\ IsShort(pages[Len(pages)])
    /\ pages[Len(pages)].batch[1] # <<>>
    /\ Len(fetched) > PageLimit

C18_LimitWitness ==
    /\ CallReturned
    /\ NoRequestFailed
    /\ Len(pages) = MaxPages
    /\ IsFull(pages[Len(pages)])
    /\ Len(fetched) = MaxPages * PageLimit

(***************************************************************************)
(* C21: in analyze_user the analysis step only ever runs on a trade file   *)
(* written by the fetch step of the same run: when the fetch step exits 0  *)
(* without having found a trade, and so writes no file, the analysis is    *)
(* skipped, whatever the output path held before.                          *)
(***************************************************************************)
AnalysisStarted == user_pc \in {"analyze", "done"} \/ analysed # None

C21_AnalysisOnlyOnOwnFile ==
    /\ AnalysisStarted =>
          /\ all_trades # <<>>
          /\ output_path = Some(all_trades)
          /\ analysed \in {None, Some(all_trades)}
    /\ (fetch_pc = "exit0" /\ all_trades = <<>>) => ~AnalysisStarted

(***************************************************************************)
(* C22: a SELL that leaves its outcome's position strictly positive does   *)
(* not change that outcome's avg_price; the average price of an open long  *)
(* position changes only on a BUY of that outcome or when the position     *)
(* drops to 0 or below.                                                    *)
(***************************************************************************)
SellKeepsAvg(trade, before, after) ==
    /\ (trade["side"] = "SELL" /\ RPos(after.position)) =>
          after.avg_price = before.avg_price
    /\ (RPos(before.position) /\ after.avg_price # before.avg_price) =>
          trade["side"] = "BUY" \/ ~RPos(after.position)

AvgPriceStep ==
    IF processed' = processed + 1
    THEN LET trade == trades[processed']
         IN  IF trade["outcome"] = "Up"
             THEN SellKeepsAvg(trade, up, up') /\ down'.avg_price = down.avg_price
             ELSE SellKeepsAvg(trade, down, down') /\ up'.avg_price = up.avg_price
    ELSE up'.avg_price = up.avg_price /\ down'.avg_price = down.avg_price

C22_SellKeepsAvgPrice == [][AvgPriceStep]_vars

C22_Witness ==
    /\ processed >= 3
    /\ trades[processed]["side"] = "SELL"
    /\ trades[processed]["outcome"] = "Up"
    /\ RPos(up.position)
    /\ up.avg_price # trades[processed]["price"]
    /\ up.avg_price = profitability_timeline[processed - 1].up_avg_price
    /\ Len(up.buys) >= 2
    /\ up.buys[1]["price"] # up.buys[2]["price"]

(***************************************************************************)
(* C23: first_profitable is non-null exactly when profitable_intervals is  *)
(* non-empty, and then is the start of the first profitable interval; the  *)
(* same holds of first_unprofitable and unprofitable_intervals.            *)
(***************************************************************************)
MarkerIsFirstStart(marker, intervals) ==
    /\ (marker # None) <=> (intervals # <<>>)
    /\ intervals # <<>> => marker = Some(intervals[1].start)

C23_MarkersAreFirstIntervalStarts ==
    results # None =>
        /\ MarkerIsFirstStart(results[1].first_profitable,
                              results[1].profitable_intervals)
        /\ MarkerIsFirstStart(results[1].first_unprofitable,
                              results[1].unprofitable_intervals)

C23_Witness ==
    /\ results # None
    /\ results[1].first_profitable # None
    /\ results[1].first_unprofitable # None
    /\ results[1].first_profitable # results[1].first_unprofitable
    /\ Len(results[1].unprofitable_intervals) >= 1
    /\ Len(results[1].profitable_intervals) >= 1
    /\ Cardinality(EntriesWith("false")) >= 2

====
